---- MODULE Spec2Model ----
(***************************************************************************)
(* Model of the condition-tree evaluator (plansys2_problem_expert          *)
(* Utils.cpp) and of the lowering of an existential condition into the     *)
(* node array (plansys2_pddl_parser Exists.cpp).                           *)
(*                                                                         *)
(* A tree is the sequence tree.nodes; node ids are 0-based positions, so   *)
(* the node with id i is nodes[i + 1].  A double is modelled by an exact   *)
(* rational <<numerator, denominator>> in lowest terms.                    *)
(***************************************************************************)
EXTENDS Integers, Sequences, FiniteSets, TLC

VARIABLES
  predicates,   \* std::vector<plansys2::Predicate> of the local snapshot
  functions,    \* std::vector<plansys2::Function> of the local snapshot
  client,       \* the problem expert behind plansys2::ProblemExpertClient
  pc,           \* position of the caller: "idle" | "returned" | "crashed"
  call,         \* the call in progress or just returned (inputs and pre-state)
  ret,          \* what the call returned
  exists_obj,   \* the parser's Exists object (params, cond)
  dest          \* the destination tree and the outcome of Exists::getTree

vars == <<predicates, functions, client, pc, call, ret, exists_obj, dest>>

(***************************************************************************)
(* Bounds of the model.                                                    *)
(***************************************************************************)
MaxPreds == 2        \* longest local predicate vector an apply may produce
MaxNum == 4          \* largest numerator / denominator of a stored function value
MaxDest == 1         \* longest destination tree a lowering may start from
MaxIndex == 257      \* largest node index of a tree given to check and apply

(***************************************************************************)
(* double arithmetic, as exact rationals                                   *)
(***************************************************************************)
Abs(x) == IF x < 0 THEN -x ELSE x

RECURSIVE Gcd(_, _)
Gcd(a, b) == IF b = 0 THEN a ELSE Gcd(b, a % b)

Rat(n, d) ==
  LET g == Gcd(Abs(n), Abs(d))
      s == IF d < 0 THEN -1 ELSE 1
  IN  <<(s * n) \div g, (s * d) \div g>>

Zero == <<0, 1>>
RAdd(x, y) == Rat(x[1] * y[2] + y[1] * x[2], x[2] * y[2])
RSub(x, y) == Rat(x[1] * y[2] - y[1] * x[2], x[2] * y[2])
RMul(x, y) == Rat(x[1] * y[1], x[2] * y[2])
RDiv(x, y) == Rat(x[1] * y[2], x[2] * y[1])
RLt(x, y) == x[1] * y[2] < y[1] * x[2]
RLe(x, y) == x[1] * y[2] <= y[1] * x[2]
RAbs(x) == <<Abs(x[1]), x[2]>>

\* the literal 1e-5 of the division guards
Epsilon == <<1, 100000>>

(***************************************************************************)
(* operator<<(double) with the stream's default precision: six significant *)
(* digits, rounded to nearest.  The text is modelled by the number it      *)
(* denotes.                                                                *)
(***************************************************************************)
RECURSIVE Pow10(_)
Pow10(k) == IF k = 0 THEN 1 ELSE 10 * Pow10(k - 1)

RECURSIVE TenPower(_)
TenPower(d) == IF d % 10 = 0 THEN 1 + TenPower(d \div 10) ELSE 0

RECURSIVE UpShift(_, _, _)
UpShift(n, d, k) == IF n * Pow10(k) >= d * 100000 THEN k ELSE UpShift(n, d, k + 1)

RECURSIVE DownShift(_, _, _)
DownShift(n, d, k) == IF n < d * 1000000 * Pow10(k) THEN k ELSE DownShift(n, d, k + 1)

\* the six-digit mantissa is taken of n / d with the powers of ten of the
\* denominator set aside (they move the decimal point only)
StreamDouble(x) ==
  LET n == Abs(x[1])
      j == TenPower(x[2])
      d == x[2] \div Pow10(j)
      sgn == IF x[1] < 0 THEN -1 ELSE 1
      r == IF n < d * 1000000
           THEN LET k == UpShift(n, d, 0)
                    m == (2 * n * Pow10(k) + d) \div (2 * d)
                IN  Rat(m, Pow10(k))
           ELSE LET k == DownShift(n, d, 1)
                    m == (2 * n + d * Pow10(k)) \div (2 * d * Pow10(k))
                IN  Rat(m * Pow10(k), 1)
  IN  IF n = 0 THEN Zero ELSE Rat(sgn * r[1], r[2] * Pow10(j))

(***************************************************************************)
(* plansys2_msgs::msg::Node and Tree                                       *)
(***************************************************************************)
Node(type, id, name, params, kids, val, etype, mtype) ==
  [node_type |-> type, node_id |-> id, name |-> name, parameters |-> params,
   children |-> kids, value |-> val, expression_type |-> etype,
   modifier_type |-> mtype]

\* uint8_t node_id: the id an evaluate call receives
U8(id) == id % 256

NodeAt(tree, id) == tree[id + 1]


\* std::string::front() of a parameter name: the names of the model that
\* start with the unbound-placeholder marker
Placeholders == {"?0", "?1", "?-1"}
Front(name) == IF name \in Placeholders THEN "?" ELSE "x"

(***************************************************************************)
(* parser::pddl::checkNodeEquality: structural equality of two facts,      *)
(* keyed on the name and the parameter names.                              *)
(***************************************************************************)
checkNodeEquality(first, second) ==
  /\ first.name = second.name
  /\ first.parameters = second.parameters

\* std::find_if(v.begin(), v.end(), bind(checkNodeEquality, _1, node)):
\* the position of the first match, 0 for v.end()
FindIf(v, node) ==
  IF \E i \in 1..Len(v) : checkNodeEquality(v[i], node)
  THEN CHOOSE i \in 1..Len(v) :
         /\ checkNodeEquality(v[i], node)
         /\ \A j \in 1..(i - 1) : ~checkNodeEquality(v[j], node)
  ELSE 0

\* std::vector::erase(it)
Erase(v, it) == [i \in 1..(Len(v) - 1) |-> IF i < it THEN v[i] ELSE v[i + 1]]

(***************************************************************************)
(* The world an evaluate call works on: the two local vectors, the remote  *)
(* problem expert, and a record of what the call did (log: one entry per   *)
(* evaluate invocation, per grounded body evaluation, per backend          *)
(* operation and per out-of-range children read; anyfail: some invocation  *)
(* returned success = false; crashed: the process died).                   *)
(***************************************************************************)
World(preds, funcs, cl) ==
  [predicates |-> preds, functions |-> funcs, client |-> cl,
   log |-> <<>>, crashed |-> FALSE, anyfail |-> FALSE]

Logged(w, op, id, args) ==
  [w EXCEPT !.log = Append(@, [op |-> op, node |-> id, args |-> args])]

\* std::make_tuple(success, truth, value)
Result(s, t, v, w) ==
  [success |-> s, truth |-> t, value |-> v,
   w |-> IF s THEN w ELSE [w EXCEPT !.anyfail = TRUE]]

Crash(w) ==
  [success |-> FALSE, truth |-> FALSE, value |-> Zero,
   w |-> [w EXCEPT !.crashed = TRUE]]

(***************************************************************************)
(* tree_replaced.nodes[node_id].children[0] on an empty children vector is *)
(* undefined behaviour.  ub is the outcome the build produces: the process *)
(* dies, or the read yields garbage and the evaluation of the garbage      *)
(* yields some (success, truth) pair.                                      *)
(***************************************************************************)
UBOutcomes == {<<"crash", FALSE, FALSE>>} \cup
              {<<"garbage", s, t>> : s \in BOOLEAN, t \in BOOLEAN}

\* the log entry of a grounded body's result
BodyOp(result) ==
  IF result.success THEN (IF result.truth THEN "body_ok_true" ELSE "body_ok_false")
  ELSE (IF result.truth THEN "body_failed_true" ELSE "body_failed_false")

UndefinedRead(w, id, ub) ==
  LET w1 == Logged(w, "oob_children_read", id, <<>>)
  IN  IF ub[1] = "crash" THEN Crash(w1) ELSE Result(ub[2], ub[3], Zero, w1)

(***************************************************************************)
(* plansys2::ProblemExpertClient, the remote backend.  ok is whether the   *)
(* backend carries out the mutations of this call.                         *)
(***************************************************************************)
existPredicate(cl, node) == FindIf(cl.predicates, node) # 0

addPredicate(cl, node, ok) ==
  IF ok /\ FindIf(cl.predicates, node) = 0
  THEN [cl EXCEPT !.predicates = Append(@, node)]
  ELSE cl

removePredicate(cl, node, ok) ==
  IF ok /\ FindIf(cl.predicates, node) # 0
  THEN [cl EXCEPT !.predicates = Erase(@, FindIf(cl.predicates, node))]
  ELSE cl

getInstances(cl) == cl.instances

\* getFunction(toString(tree, node_id)): the function is looked up by its
\* printed form "(name param ...)"
toString(node) == <<node.name>> \o node.parameters

getFunction(cl, str) ==
  IF \E i \in 1..Len(cl.functions) : toString(cl.functions[i]) = str
  THEN CHOOSE i \in 1..Len(cl.functions) : toString(cl.functions[i]) = str
  ELSE 0

\* updateFunction(fromStringFunction("(= " + str + " " + text + ")"))
updateFunction(cl, str, text, ok) ==
  IF ok /\ getFunction(cl, str) # 0
  THEN [cl EXCEPT !.functions[getFunction(cl, str)].value = text]
  ELSE cl


(***************************************************************************)
(* Grounding utilities                                                     *)
(***************************************************************************)
\* the candidate objects of the local snapshot: every distinct parameter of
\* a held predicate, in order of first occurrence
RECURSIVE PushDistinct(_, _, _)
PushDistinct(instances, params, i) ==
  IF i > Len(params) THEN instances
  ELSE IF \E j \in 1..Len(instances) : instances[j] = params[i]
       THEN PushDistinct(instances, params, i + 1)
       ELSE PushDistinct(Append(instances, params[i]), params, i + 1)

RECURSIVE LocalInstances(_, _, _)
LocalInstances(preds, i, instances) ==
  IF i > Len(preds) THEN instances
  ELSE LocalInstances(preds, i + 1, PushDistinct(instances, preds[i].parameters, 1))

\* cart_product(rvvi, rvi, me, end): the tuples pushed onto rvvi
RECURSIVE cart_product(_, _, _), CartLoop(_, _, _, _)
\* CartLoop visiting the candidates of a variable last to first
CartLoop_Reversed(rvi, lists, me, it) ==
  IF it > Len(lists[me]) THEN <<>>
  ELSE CartLoop(rvi, lists, me, it + 1)
         \o cart_product(Append(rvi, lists[me][it]), lists, me + 1)

cart_product(rvi, lists, me) ==
  IF me > Len(lists) THEN <<rvi>>
  ELSE CartLoop(rvi, lists, me, 1)

CartLoop(rvi, lists, me, it) ==
  IF it > Len(lists[me]) THEN <<>>
  ELSE cart_product(Append(rvi, lists[me][it]), lists, me + 1)
         \o CartLoop(rvi, lists, me, it + 1)

\* ReplaceMap reading parameters_values[0] for every variable
ReplaceMap_FirstValue(params, values) ==
  [n \in {params[i] : i \in 1..Len(params)} |-> values[1]]

\* std::map<std::string, std::string> replace filled by
\* replace[parameters[i].name] = parameters_values[i], i ascending
ReplaceMap(params, values) ==
  [n \in {params[i] : i \in 1..Len(params)} |->
     values[CHOOSE i \in 1..Len(params) :
              /\ params[i] = n
              /\ \A j \in (i + 1)..Len(params) : params[j] # n]]

RECURSIVE replace_children_param(_, _, _), ReplaceChildren(_, _, _, _)
replace_children_param(tree, node_id, replace) ==
  LET id == U8(node_id)
      new_tree == ReplaceChildren(tree, NodeAt(tree, id).children, 1, replace)
      old == NodeAt(tree, id).parameters
      cur == NodeAt(new_tree, id).parameters
  IN  [new_tree EXCEPT ![id + 1].parameters =
         [i \in 1..Len(old) |->
            IF old[i] \in DOMAIN replace THEN replace[old[i]] ELSE cur[i]]]

ReplaceChildren(new_tree, children, i, replace) ==
  IF i > Len(children) THEN new_tree
  ELSE ReplaceChildren(replace_children_param(new_tree, children[i], replace),
                       children, i + 1, replace)

(***************************************************************************)
(* The leaf operations of evaluate                                         *)
(***************************************************************************)
\* PredicateApplyLocal with the erase of the negated branch left out
PredicateApplyLocal_NoErase(preds, node, negate) ==
  IF negate THEN preds
  ELSE IF FindIf(preds, node) = 0 THEN Append(preds, node) ELSE preds

\* PredicateApplyLocal pushing the fact whether it is held or not
PredicateApplyLocal_AlwaysPush(preds, node, negate) ==
  LET it == FindIf(preds, node)
  IN  IF negate
      THEN IF it # 0 THEN Erase(preds, it) ELSE preds
      ELSE Append(preds, node)

\* PREDICATE, apply && use_state: the local vector after the call
PredicateApplyLocal(preds, node, negate) ==
  LET it == FindIf(preds, node)
  IN  IF negate
      THEN IF it # 0 THEN Erase(preds, it) ELSE preds
      ELSE IF it = 0 THEN Append(preds, node) ELSE preds

\* the guard of ARITH_DIV and SCALE_DOWN: std::abs(right) > 1e-5
DivisionAllowed(right) == RLt(Epsilon, RAbs(right))

\* AndAccumulate keeping only the last child's success
AndAccumulate_LastSuccess(acc, result) ==
  [success |-> result.success, truth |-> acc.truth /\ result.truth]

\* the accumulation of one child's result in the AND and OR loops
AndAccumulate(acc, result) ==
  [success |-> acc.success /\ result.success, truth |-> acc.truth /\ result.truth]

OrAccumulate(acc, result) ==
  [success |-> acc.success /\ result.success, truth |-> acc.truth \/ result.truth]

\* negate ^ b
Xor(a, b) == a # b

\* the comparison and arithmetic switch of EXPRESSION, both operands
\* computed; c0 and c1 are the operand nodes
ExpressionSwitch(etype, left, right, c0, c1, negate, w) ==
  CASE etype = "COMP_GE" -> Result(TRUE, Xor(negate, RLe(right.value, left.value)), Zero, w)
    [] etype = "COMP_GT" -> Result(TRUE, Xor(negate, RLt(right.value, left.value)), Zero, w)
    [] etype = "COMP_LE" -> Result(TRUE, Xor(negate, RLe(left.value, right.value)), Zero, w)
    [] etype = "COMP_LT" -> Result(TRUE, Xor(negate, RLt(left.value, right.value)), Zero, w)
    [] etype = "COMP_EQ" ->
         IF c0.node_type \in {"CONSTANT", "PARAMETER"} /\ c1.node_type \in {"CONSTANT", "PARAMETER"}
         THEN LET c0_name == IF c0.node_type = "PARAMETER" THEN c0.parameters[1] ELSE c0.name
                  c1_name == IF c1.node_type = "PARAMETER" THEN c1.parameters[1] ELSE c1.name
              IN  Result(TRUE, Xor(negate, c1_name = c0_name), Zero, w)
         ELSE IF c0.node_type = "NUMBER" /\ c1.node_type = "NUMBER"
              THEN Result(TRUE, Xor(negate, left.value = right.value), Zero, w)
              ELSE Result(FALSE, FALSE, Zero, w)
    [] etype = "ARITH_MULT" -> Result(TRUE, FALSE, RMul(left.value, right.value), w)
    [] etype = "ARITH_DIV" ->
         IF DivisionAllowed(right.value)
         THEN Result(TRUE, FALSE, RDiv(left.value, right.value), w)
         ELSE Result(FALSE, FALSE, Zero, w)
    [] etype = "ARITH_ADD" -> Result(TRUE, FALSE, RAdd(left.value, right.value), w)
    [] etype = "ARITH_SUB" -> Result(TRUE, FALSE, RSub(left.value, right.value), w)
    [] OTHER -> Result(FALSE, FALSE, Zero, w)

\* the switch of FUNCTION_MODIFIER: (success, value)
ModifierSwitch(mtype, left, right) ==
  CASE mtype = "ASSIGN" -> [success |-> TRUE, value |-> right]
    [] mtype = "INCREASE" -> [success |-> TRUE, value |-> RAdd(left, right)]
    [] mtype = "DECREASE" -> [success |-> TRUE, value |-> RSub(left, right)]
    [] mtype = "SCALE_UP" -> [success |-> TRUE, value |-> RMul(left, right)]
    [] mtype = "SCALE_DOWN" ->
         IF DivisionAllowed(right)
         THEN [success |-> TRUE, value |-> RDiv(left, right)]
         ELSE [success |-> FALSE, value |-> Zero]
    [] OTHER -> [success |-> FALSE, value |-> Zero]

\* ModifierCommit committing whenever the computation succeeded
ModifierCommit_IgnoreApply(m, left_node, apply_, use_state, ok, w) ==
  IF ~m.success THEN Result(FALSE, FALSE, m.value, w)
  ELSE IF use_state
       THEN LET it == FindIf(w.functions, left_node)
            IN  IF it # 0
                THEN Result(TRUE, FALSE, m.value,
                            [w EXCEPT !.functions[it].value = m.value])
                ELSE Result(FALSE, FALSE, m.value, w)
       ELSE Result(TRUE, FALSE, m.value,
                   [Logged(w, "updateFunction", left_node.node_id, toString(left_node))
                      EXCEPT !.client = updateFunction(w.client, toString(left_node),
                                                       StreamDouble(m.value), ok)])

\* if (success && apply) { ... }: the commit of a FUNCTION_MODIFIER
ModifierCommit(m, left_node, apply_, use_state, ok, w) ==
  IF ~(m.success /\ apply_) THEN Result(m.success, FALSE, m.value, w)
  ELSE IF use_state
       THEN LET it == FindIf(w.functions, left_node)
            IN  IF it # 0
                THEN Result(TRUE, FALSE, m.value,
                            [w EXCEPT !.functions[it].value = m.value])
                ELSE Result(FALSE, FALSE, m.value, w)
       ELSE Result(TRUE, FALSE, m.value,
                   [Logged(w, "updateFunction", left_node.node_id, toString(left_node))
                      EXCEPT !.client = updateFunction(w.client, toString(left_node),
                                                       StreamDouble(m.value), ok)])


(***************************************************************************)
(* evaluate(tree, problem_client, predicates, functions, apply, use_state, *)
(* node_id, negate).  w carries problem_client, predicates and functions;  *)
(* env is [ub, ok]: the outcome of undefined behaviour and whether the     *)
(* backend carries out mutations.                                          *)
(***************************************************************************)
RECURSIVE evaluate(_, _, _, _, _, _, _)
RECURSIVE AndOrLoop(_, _, _, _, _, _, _, _, _, _)
RECURSIVE ExistsLoop(_, _, _, _, _, _, _, _, _)

AndOrLoop(tree, w, apply_, use_state, children, i, negate, env, isAnd, acc) ==
  IF i > Len(children) THEN Result(acc.success, acc.truth, Zero, w)
  ELSE LET result == evaluate(tree, w, apply_, use_state, children[i], negate, env)
       IN  IF result.w.crashed THEN result
           ELSE AndOrLoop(tree, result.w, apply_, use_state, children, i + 1, negate, env,
                          isAnd,
                          IF isAnd THEN AndAccumulate(acc, result)
                                   ELSE OrAccumulate(acc, result))

ExistsLoop(tree, w, apply_, use_state, node_id, negate, env, tuples, i) ==
  IF i > Len(tuples) THEN Result(TRUE, FALSE, Zero, w)
  ELSE
    LET node == NodeAt(tree, node_id)
        replace == ReplaceMap(node.parameters, tuples[i])
        tree_replaced == replace_children_param(tree, node_id, replace)
        kids == NodeAt(tree_replaced, node_id).children
        w1 == Logged(w, "ground", node_id, tuples[i])
        result == IF Len(kids) = 0
                  THEN UndefinedRead(w1, node_id, env.ub)
                  ELSE evaluate(tree_replaced, w1, apply_, use_state, kids[1], negate, env)
        seen == [result EXCEPT !.w = Logged(@, BodyOp(result), node_id, tuples[i])]
    IN  IF result.w.crashed THEN result
        ELSE IF result.truth THEN seen
        ELSE ExistsLoop(tree, seen.w, apply_, use_state, node_id, negate, env, tuples, i + 1)

evaluate(tree, w0, apply_, use_state, node_id_arg, negate, env) ==
  IF Len(tree) = 0 THEN Result(TRUE, TRUE, Zero, w0)
  ELSE
  LET node_id == U8(node_id_arg)
      node == NodeAt(tree, node_id)
      w == Logged(w0, "evaluate", node_id, <<>>)
      Grounding ==
        LET instances == IF use_state = FALSE
                         THEN getInstances(w.client)
                         ELSE LocalInstances(w.predicates, 1, <<>>)
            parameters_vector == [i \in 1..Len(node.parameters) |-> instances]
            possible_parameters_values == cart_product(<<>>, parameters_vector, 1)
        IN  ExistsLoop(tree, w, apply_, use_state, node_id, negate, env,
                       possible_parameters_values, 1)
  IN
  CASE node.node_type = "AND" ->
         AndOrLoop(tree, w, apply_, use_state, node.children, 1, negate, env, TRUE,
                   [success |-> TRUE, truth |-> TRUE])
    [] node.node_type = "OR" ->
         AndOrLoop(tree, w, apply_, use_state, node.children, 1, negate, env, FALSE,
                   [success |-> TRUE, truth |-> FALSE])
    [] node.node_type = "NOT" ->
         evaluate(tree, w, apply_, use_state, node.children[1], ~negate, env)
    [] node.node_type = "PREDICATE" ->
         IF apply_
         THEN IF use_state
              THEN Result(TRUE, ~negate, Zero,
                          [w EXCEPT !.predicates = PredicateApplyLocal(@, node, negate)])
              ELSE IF negate
                   THEN Result(env.ok, FALSE, Zero,
                               [Logged(w, "removePredicate", node_id, toString(node))
                                  EXCEPT !.client = removePredicate(w.client, node, env.ok)])
                   ELSE Result(env.ok, TRUE, Zero,
                               [Logged(w, "addPredicate", node_id, toString(node))
                                  EXCEPT !.client = addPredicate(w.client, node, env.ok)])
         ELSE IF use_state
              THEN Result(TRUE, Xor(negate, FindIf(w.predicates, node) # 0), Zero, w)
              ELSE Result(TRUE, Xor(negate, existPredicate(w.client, node)), Zero, w)
    [] node.node_type = "FUNCTION" ->
         IF use_state
         THEN LET it == FindIf(w.functions, node)
              IN  IF it # 0 THEN Result(TRUE, FALSE, w.functions[it].value, w)
                  ELSE Result(FALSE, FALSE, Zero, w)
         ELSE LET func == getFunction(w.client, toString(node))
              IN  IF func # 0 THEN Result(TRUE, FALSE, w.client.functions[func].value, w)
                  ELSE Result(FALSE, FALSE, Zero, w)
    [] node.node_type = "EXPRESSION" ->
         LET left == evaluate(tree, w, apply_, use_state, node.children[1], negate, env)
             right == evaluate(tree, left.w, apply_, use_state, node.children[2], negate, env)
         IN  IF left.w.crashed THEN left
             ELSE IF right.w.crashed THEN right
             ELSE IF ~left.success \/ ~right.success
                  THEN Result(FALSE, FALSE, Zero, right.w)
                  ELSE ExpressionSwitch(node.expression_type, left, right,
                                        NodeAt(tree, node.children[1]),
                                        NodeAt(tree, node.children[2]), negate, right.w)
    [] node.node_type = "FUNCTION_MODIFIER" ->
         LET left == evaluate(tree, w, apply_, use_state, node.children[1], negate, env)
             right == evaluate(tree, left.w, apply_, use_state, node.children[2], negate, env)
         IN  IF left.w.crashed THEN left
             ELSE IF right.w.crashed THEN right
             ELSE IF ~left.success \/ ~right.success
                  THEN Result(FALSE, FALSE, Zero, right.w)
                  ELSE ModifierCommit(
                         ModifierSwitch(node.modifier_type, left.value, right.value),
                         NodeAt(tree, U8(node.children[1])), apply_, use_state, env.ok,
                         right.w)
    [] node.node_type = "NUMBER" -> Result(TRUE, TRUE, node.value, w)
    [] node.node_type = "CONSTANT" ->
         IF node.name # "" THEN Result(TRUE, TRUE, Zero, w)
         ELSE Result(TRUE, FALSE, Zero, w)
    [] node.node_type = "PARAMETER" ->
         IF Len(node.parameters) > 0 /\ Front(node.parameters[1]) # "?"
         THEN Result(TRUE, TRUE, Zero, w)
         ELSE Grounding     \* no return: control falls through into case EXISTS
    [] node.node_type = "EXISTS" -> Grounding
    [] OTHER -> Result(FALSE, FALSE, Zero, w)


(***************************************************************************)
(* check and apply, local-snapshot and remote overloads                    *)
(***************************************************************************)
\* evaluate(tree, predicates, functions, apply, node_id): use_state = true
evaluateLocal(tree, w, apply_, node_id, env) ==
  evaluate(tree, w, apply_, TRUE, node_id, FALSE, env)

\* evaluate(tree, problem_client, apply, node_id): use_state = false, the
\* two vectors are fresh and empty
evaluateRemote(tree, w, apply_, node_id, env) ==
  evaluate(tree, w, apply_, FALSE, node_id, FALSE, env)

\* bool check(...): std::get<1>(ret);  bool apply(...): std::get<0>(ret)
Returned(fn, result) == IF fn = "check" THEN result.truth ELSE result.success

(***************************************************************************)
(* Construction of trees: a term is a node sequence whose root has id 0    *)
(***************************************************************************)
Shift(t, k) ==
  [i \in 1..Len(t) |->
     [t[i] EXCEPT !.node_id = @ + k,
                  !.children = [j \in 1..Len(@) |-> @[j] + k]]]

RECURSIVE Offsets(_, _, _)
Offsets(subs, i, at) ==
  IF i > Len(subs) THEN <<>>
  ELSE <<at>> \o Offsets(subs, i + 1, at + Len(subs[i]))

RECURSIVE Flatten(_, _, _)
Flatten(subs, offs, i) ==
  IF i > Len(subs) THEN <<>>
  ELSE Shift(subs[i], offs[i]) \o Flatten(subs, offs, i + 1)

Join(root, subs) ==
  LET offs == Offsets(subs, 1, 1)
  IN  <<[root EXCEPT !.children = offs]>> \o Flatten(subs, offs, 1)

Leaf(type, name, params, val) == <<Node(type, 0, name, params, <<>>, val, "", "")>>
TPred(name, params) == Leaf("PREDICATE", name, params, Zero)
TFunc(name, params) == Leaf("FUNCTION", name, params, Zero)
TNum(val) == Leaf("NUMBER", "", <<>>, val)
TConst(name) == Leaf("CONSTANT", name, <<>>, Zero)
TParam(name) == Leaf("PARAMETER", "", <<name>>, Zero)
TNot(t) == Join(Node("NOT", 0, "", <<>>, <<>>, Zero, "", ""), <<t>>)
TAnd(ts) == Join(Node("AND", 0, "", <<>>, <<>>, Zero, "", ""), ts)
TOr(ts) == Join(Node("OR", 0, "", <<>>, <<>>, Zero, "", ""), ts)
TExists(variables, body) ==
  Join(Node("EXISTS", 0, "", variables, <<>>, Zero, "", ""), <<body>>)
TExpr(etype, l, r) ==
  Join(Node("EXPRESSION", 0, "", <<>>, <<>>, Zero, etype, ""), <<l, r>>)
TMod(mtype, l, r) ==
  Join(Node("FUNCTION_MODIFIER", 0, "", <<>>, <<>>, Zero, "", mtype), <<l, r>>)

\* a held fact: a Predicate, or a Function with its value
Fact(name, params) == Node("PREDICATE", 0, name, params, <<>>, Zero, "", "")
FunctionFact(name, params, val) == Node("FUNCTION", 0, name, params, <<>>, val, "", "")


(***************************************************************************)
(* The trees, snapshots and backends the calls are drawn from              *)
(***************************************************************************)
One == <<1, 1>>
Two == <<2, 1>>
Three == <<3, 1>>
Numbers == {Zero, <<1, 1000000>>, <<1, 100000>>, <<11, 1000000>>, One, Three}

Pa == TPred("P", <<"a">>)
Pb == TPred("P", <<"b">>)
Qab == TPred("Q", <<"a", "b">>)
R0 == TPred("R", <<>>)
Fa == TFunc("f", <<"a">>)
Ga == TFunc("g", <<"a">>)      \* g is defined in no snapshot and no backend
P0 == TPred("P", <<"?0">>)
G0 == TFunc("g", <<"?0">>)

PredLeaves == {Pa, Pb, Qab, R0}
Kids == {Pa, TNot(Pb), Ga}

\* trees given to apply and to check
EffectTrees ==
  PredLeaves \cup {TNot(p) : p \in PredLeaves}
    \cup {TAnd(<<x, y>>) : x \in Kids, y \in Kids}
    \cup {TOr(<<Ga, Pa>>), TOr(<<Pa, Ga>>), TNot(TNot(Pa)), TAnd(<<>>),
          TNot(TAnd(<<Pa, TNot(Pb)>>)),
          TExists(<<"?0">>, P0),
          TExists(<<>>, R0),
          TExists(<<"?0">>, TNot(P0)),
          TExists(<<"?0">>, G0),
          TMod("ASSIGN", Fa, TNum(Two)),
          TMod("SCALE_DOWN", Fa, TNum(Zero)),
          TMod("NONE", Fa, TNum(Two)),
          TMod("ASSIGN", Ga, TNum(Two)),
          TAnd(<<TMod("ASSIGN", Fa, TNum(Two)), Ga>>),
          TParam("a"), TParam("?0"), Leaf("PARAMETER", "", <<>>, Zero),
          Leaf("DURATIVE", "", <<>>, Zero), <<>>}

\* trees given to check only
ConditionTrees ==
  {TOr(<<x, y>>) : x \in Kids, y \in Kids}
    \cup {TExists(<<"?0", "?1">>, TPred("Q", <<"?0", "?1">>)),
          TExists(<<"?0">>, TPred("Q", <<"?0", "?0">>)),
          TNot(TExists(<<"?0">>, P0)),
          TExists(<<"?0">>, TOr(<<G0, P0>>)),
          TExists(<<"?0">>, TExpr("COMP_GT", TFunc("f", <<"?0">>), TNum(Zero))),
          TExists(<<"?0">>, TExpr("COMP_EQ", TParam("?0"), TConst("b"))),
          TExists(<<"?0">>, TExists(<<"?1">>, TPred("Q", <<"?0", "?1">>))),
          TAnd(<<TExists(<<"?0">>, G0), Pb>>),
          TNot(TExists(<<"?0">>, G0)),
          TExpr("COMP_EQ", TParam("?0"), TConst("b")),
          TExpr("COMP_GT", Fa, TNum(One)),
          TExpr("ARITH_DIV", Fa, TNum(Zero)),
          TExpr("COMP_EQ", Fa, TNum(One)),
          TMod("INCREASE", Fa, TNum(One)),
          TMod("SCALE_DOWN", Fa, TNum(Two)),
          TConst("a"), TConst(""), TNum(Two), Fa, Ga}

\* trees of the arithmetic: every modifier and the division, over operands
\* on both sides of the guard
Modifiers == {"ASSIGN", "INCREASE", "DECREASE", "SCALE_UP", "SCALE_DOWN", "NONE"}
ArithTrees ==
  {TMod(m, Fa, TNum(n)) : m \in Modifiers, n \in Numbers}
    \cup {TMod(m, Ga, TNum(One)) : m \in {"ASSIGN", "SCALE_DOWN"}}
    \cup {TExpr("ARITH_DIV", Fa, TNum(n)) : n \in Numbers}
    \cup {TExpr(e, Fa, TNum(One)) :
            e \in {"COMP_GE", "COMP_GT", "COMP_LE", "COMP_LT", "COMP_EQ",
                   "ARITH_MULT", "ARITH_ADD", "ARITH_SUB", "NONE"}}
    \cup {TExpr("COMP_EQ", TNum(One), TNum(n)) : n \in {One, Two}}
    \cup {TExpr("COMP_EQ", TParam("a"), TConst(c)) : c \in {"a", "b"}}
    \cup {TMod("ASSIGN", TNum(One), TNum(Two)),
          TMod("SCALE_DOWN", Fa, Fa),
          TMod("SCALE_DOWN", Fa, TExpr("ARITH_SUB", Fa, TNum(One))),
          TMod("INCREASE", Fa, TExpr("ARITH_DIV", TNum(One), TNum(Zero))),
          TNot(TExpr("COMP_GT", Fa, TNum(Zero)))}

\* the local mode holds no client: problem_client is a null shared_ptr
NoClient == [instances |-> <<>>, predicates |-> <<>>, functions |-> <<>>, held |-> FALSE]

InitPredicates ==
  {<<>>, <<Fact("P", <<"a">>)>>, <<Fact("P", <<"b">>), Fact("Q", <<"a", "b">>)>>}
InitFunctions == {<<>>, <<FunctionFact("f", <<"a">>, One)>>}
InitClients ==
  {[instances |-> i, predicates |-> p, functions |-> f, held |-> TRUE] :
     i \in {<<>>, <<"a", "b">>}, p \in InitPredicates, f \in InitFunctions}

\* the values the arithmetic of a call may start from
SmallValues(fs) ==
  \A i \in 1..Len(fs) : Abs(fs[i].value[1]) <= MaxNum /\ fs[i].value[2] <= MaxNum

NoCall == [fn |-> "none", backend |-> "none", tree |-> <<>>, node_id |-> 0, ok |-> TRUE,
           predicates |-> <<>>, functions |-> <<>>, client |-> NoClient]
NoRet == [value |-> FALSE, success |-> FALSE, truth |-> FALSE, number |-> Zero,
          log |-> <<>>, anyfail |-> FALSE]
NoExists == [parsed |-> FALSE, params |-> <<>>, cond |-> <<>>]
NoDest == [nodes |-> <<>>, before |-> <<>>, outcome |-> "none"]

Init ==
  /\ \/ /\ client = NoClient
        /\ predicates \in InitPredicates
        /\ functions \in InitFunctions
     \/ /\ client \in InitClients
        /\ predicates = <<>>
        /\ functions = <<>>
  /\ pc = "idle"
  /\ call = NoCall
  /\ ret = NoRet
  /\ exists_obj = NoExists
  /\ dest = NoDest

(***************************************************************************)
(* One call of check or apply, from its entry to its return.  The outcome  *)
(* of undefined behaviour is a choice only in a call that reaches it.      *)
(***************************************************************************)
Run(fn, backend, tree, node_id, env) ==
  IF backend = "local"
  THEN evaluateLocal(tree, World(predicates, functions, client), fn = "apply", node_id, env)
  ELSE evaluateRemote(tree, World(<<>>, <<>>, client), fn = "apply", node_id, env)

\* the caller's view once the call has ended with result
Outcome(fn, backend, tree, node_id, ok, result) ==
  LET after == IF backend = "local" THEN result.w
               ELSE [result.w EXCEPT !.predicates = predicates,
                                     !.functions = functions]
  IN  /\ Len(after.predicates) <= MaxPreds
      /\ Len(after.client.predicates) <= MaxPreds
      /\ predicates' = after.predicates
      /\ functions' = after.functions
      /\ client' = after.client
      /\ call' = [fn |-> fn, backend |-> backend, tree |-> tree,
                  node_id |-> node_id, ok |-> ok, predicates |-> predicates,
                  functions |-> functions, client |-> client]
      /\ ret' = [value |-> Returned(fn, result), success |-> result.success,
                 truth |-> result.truth, number |-> result.value,
                 log |-> result.w.log, anyfail |-> result.w.anyfail]
      /\ pc' = IF result.w.crashed THEN "crashed" ELSE "returned"
      /\ UNCHANGED <<exists_obj, dest>>

\* dies is the call under the outcome "crash": it tells whether the call
\* reaches undefined behaviour at all
Outcomes(fn, backend, tree, node_id, ok, dies) ==
  \E ub \in IF dies.w.crashed THEN UBOutcomes ELSE {<<"crash", FALSE, FALSE>>} :
    Outcome(fn, backend, tree, node_id, ok,
            IF ub[1] = "crash" THEN dies
            ELSE Run(fn, backend, tree, node_id, [ub |-> ub, ok |-> ok]))

Invoke(fn, backend, tree, node_id, ok) ==
  Outcomes(fn, backend, tree, node_id, ok,
           Run(fn, backend, tree, node_id, [ub |-> <<"crash", FALSE, FALSE>>, ok |-> ok]))

CheckLocal ==
  /\ pc = "idle" /\ ~client.held /\ SmallValues(functions)
  /\ \E tree \in EffectTrees \cup ConditionTrees : Invoke("check", "local", tree, 0, TRUE)

ApplyLocal ==
  /\ pc = "idle" /\ ~client.held /\ SmallValues(functions)
  /\ \E tree \in EffectTrees : Invoke("apply", "local", tree, 0, TRUE)

CheckRemote ==
  /\ pc = "idle" /\ client.held /\ SmallValues(client.functions)
  /\ \E tree \in EffectTrees \cup ConditionTrees : Invoke("check", "remote", tree, 0, TRUE)

ApplyRemote ==
  /\ pc = "idle" /\ client.held /\ SmallValues(client.functions)
  /\ \E tree \in EffectTrees, ok \in BOOLEAN : Invoke("apply", "remote", tree, 0, ok)

\* the caller takes the result and is ready for its next call
Return ==
  /\ pc = "returned"
  /\ pc' = "idle"
  /\ call' = NoCall
  /\ ret' = NoRet
  /\ UNCHANGED <<predicates, functions, client, exists_obj, dest>>

Next == CheckLocal \/ ApplyLocal \/ CheckRemote \/ ApplyRemote \/ Return

Spec == Init /\ [][Next]_vars

\* the arithmetic alone, on the snapshots and backends that hold f(a)
ArithLocal ==
  /\ pc = "idle" /\ ~client.held /\ SmallValues(functions)
  /\ \E fn \in {"check", "apply"}, tree \in ArithTrees : Invoke(fn, "local", tree, 0, TRUE)

ArithRemote ==
  /\ pc = "idle" /\ client.held /\ SmallValues(client.functions)
  /\ \E fn \in {"check", "apply"}, tree \in ArithTrees, ok \in BOOLEAN :
       Invoke(fn, "remote", tree, 0, ok)

NextArith == ArithLocal \/ ArithRemote \/ Return

SpecArith == Init /\ [][NextArith]_vars

\* a tree longer than the range of uint8_t: (P a) at index 0, (P b) at index
\* 256, NOT over node 256 at the last index, and R() everywhere else
BigTree ==
  [i \in 1..(MaxIndex + 1) |->
     IF i = 1 THEN Node("PREDICATE", 0, "P", <<"a">>, <<>>, Zero, "", "")
     ELSE IF i = 257 THEN Node("PREDICATE", 256, "P", <<"b">>, <<>>, Zero, "", "")
     ELSE IF i = MaxIndex + 1 THEN Node("NOT", MaxIndex, "", <<>>, <<256>>, Zero, "", "")
     ELSE Node("PREDICATE", i - 1, "R", <<>>, <<>>, Zero, "", "")]

\* the trees and the node indices check and apply are called with: every
\* index of the short trees, and indices on both sides of 256 of the long one
IndexedTrees ==
  {<<t, i>> : t \in {TAnd(<<Pa, TNot(Pb)>>), TNot(TNot(Pa)), TExists(<<"?0">>, P0)},
              i \in 0..3}
    \cup {<<BigTree, i>> : i \in {0, 1, 255, 256, MaxIndex}}

IndexLocal ==
  /\ pc = "idle" /\ ~client.held /\ SmallValues(functions)
  /\ \E fn \in {"check", "apply"}, ti \in IndexedTrees :
       /\ ti[2] < Len(ti[1])
       /\ Invoke(fn, "local", ti[1], ti[2], TRUE)

IndexRemote ==
  /\ pc = "idle" /\ client.held /\ SmallValues(client.functions)
  /\ \E fn \in {"check", "apply"}, ti \in IndexedTrees, ok \in BOOLEAN :
       /\ ti[2] < Len(ti[1])
       /\ Invoke(fn, "remote", ti[1], ti[2], ok)

NextIndex == IndexLocal \/ IndexRemote \/ Return

SpecIndex == Init /\ [][NextIndex]_vars


(***************************************************************************)
(* The parser: Exists::parse and Exists::getTree                           *)
(*                                                                         *)
(* A condition text is [kind |-> "()"], [kind |-> "ground", name, args] or *)
(* [kind |-> "exists", names, types, body]: names are the quantified       *)
(* variables and types the type indices Domain::convertTypes gives them.   *)
(* A TokenStruct is the sequence of its names; slot indices are 0-based.   *)
(***************************************************************************)
NullCond == [kind |-> "null"]

Index(scope, name) == (CHOOSE i \in 1..Len(scope) : scope[i] = name) - 1

RECURSIVE Closed(_, _)
Closed(text, scope) ==
  CASE text.kind = "()" -> TRUE
    [] text.kind = "ground" ->
         \A i \in 1..Len(text.args) : \E j \in 1..Len(scope) : scope[j] = text.args[i]
    [] text.kind = "exists" -> Closed(text.body, scope \o text.names)

RECURSIVE ExistsParse(_, _), createCondition(_, _)
\* Exists::parse(f, ts, d): the object's params and cond afterwards
ExistsParse(text, ts) ==
  LET estruct == ts \o text.names
  IN  [kind |-> "Exists",
       params |-> [i \in 1..Len(text.types) |-> text.types[i] + Len(ts)],
       cond |-> IF text.body.kind # "()"
                THEN createCondition(text.body, estruct)
                ELSE NullCond]

\* d.createCondition(f) followed by cond->parse(f, estruct, d)
createCondition(text, scope) ==
  IF text.kind = "exists" THEN ExistsParse(text, scope)
  ELSE [kind |-> "Ground", name |-> text.name,
        params |-> [i \in 1..Len(text.args) |-> Index(scope, text.args[i])]]

\* std::to_string(int)
Digits == <<"0", "1", "2", "3", "4", "5", "6", "7", "8", "9">>
RECURSIVE to_string(_)
to_string(n) ==
  IF n < 0 THEN "-" \o to_string(-n)
  ELSE IF n < 10 THEN Digits[n + 1]
  ELSE to_string(n \div 10) \o Digits[(n % 10) + 1]

\* params[i] < replace.size(): the int is converted to size_t, so a
\* negative value is larger than any size
LessThanSize(x, size) == x >= 0 /\ x < size

\* the name getTree gives the parameter of slot params[i], i 0-based
ParamName(i, slot, replace) ==
  IF i < Len(replace) /\ LessThanSize(slot, Len(replace))
  THEN IF slot >= 0 THEN replace[slot + 1] ELSE ""
  ELSE "?" \o to_string(slot)

\* cond->getTree(...) with cond null is undefined behaviour: the process
\* dies, or the call comes back with garbage read as child->node_id
NullOutcomes == {<<"crash", 0>>, <<"garbage", 0>>, <<"garbage", 255>>}

\* tree.nodes[node->node_id].children.push_back(child->node_id)
PushChild(nodes, node_id, child_id) ==
  [nodes EXCEPT ![node_id + 1].children = Append(@, child_id)]

RECURSIVE getTree(_, _, _, _)
\* [nodes: the tree afterwards, node_id: the id of the node returned,
\*  crashed: the process died]
getTree(c, nodes, replace, ub) ==
  IF c.kind = "Ground"
  THEN LET id == Len(nodes)
       IN  [nodes |-> Append(nodes,
                        Node("PREDICATE", id, c.name,
                             [i \in 1..Len(c.params) |->
                                IF LessThanSize(c.params[i], Len(replace))
                                THEN replace[c.params[i] + 1]
                                ELSE "?" \o to_string(c.params[i])],
                             <<>>, Zero, "", "")),
            node_id |-> id, crashed |-> FALSE]
  ELSE LET id == Len(nodes)
           node == Node("EXISTS", id, "",
                        [i \in 1..Len(c.params) |-> ParamName(i - 1, c.params[i], replace)],
                        <<>>, Zero, "", "")
           pushed == Append(nodes, node)
       IN  IF c.cond.kind = "null"
           THEN IF ub[1] = "crash"
                THEN [nodes |-> pushed, node_id |-> id, crashed |-> TRUE]
                ELSE [nodes |-> PushChild(pushed, id, ub[2]), node_id |-> id,
                      crashed |-> FALSE]
           ELSE LET child == getTree(c.cond, pushed, replace, ub)
                IN  IF child.crashed THEN child
                    ELSE [nodes |-> PushChild(child.nodes, id, child.node_id),
                          node_id |-> id, crashed |-> FALSE]

GroundText(name, args) == [kind |-> "ground", name |-> name, args |-> args]
ExistsText(names, types, body) ==
  [kind |-> "exists", names |-> names, types |-> types, body |-> body]
EmptyText == [kind |-> "()"]

Texts ==
  {ExistsText(<<"?x">>, <<t>>, b) :
     t \in {0, 1},
     b \in {EmptyText, GroundText("P", <<"?x">>), GroundText("P", <<"?r">>),
            ExistsText(<<"?y">>, <<0>>, GroundText("Q", <<"?x", "?y">>)),
            ExistsText(<<"?y">>, <<0>>, EmptyText)}}
    \cup {ExistsText(<<"?x", "?y">>, <<0, 1>>, GroundText("Q", <<"?x", "?y">>)),
          ExistsText(<<>>, <<>>, GroundText("R", <<>>)),
          ExistsText(<<>>, <<>>, EmptyText)}
Scopes == {<<>>, <<"?r">>}
Replacements == {<<>>, <<"a">>, <<"a", "b">>}

Parse ==
  /\ pc = "idle"
  /\ \E text \in Texts, ts \in Scopes :
       /\ Closed(text, ts)
       /\ exists_obj' = [parsed |-> TRUE, params |-> ExistsParse(text, ts).params,
                         cond |-> ExistsParse(text, ts).cond]
  /\ UNCHANGED <<predicates, functions, client, pc, call, ret, dest>>

GetTree ==
  /\ pc = "idle"
  /\ exists_obj.parsed
  /\ Len(dest.nodes) <= MaxDest
  /\ \E replace \in Replacements, ub \in NullOutcomes :
       LET lowered == getTree([kind |-> "Exists", params |-> exists_obj.params,
                               cond |-> exists_obj.cond],
                              dest.nodes, replace, ub)
       IN  /\ dest' = [nodes |-> lowered.nodes, before |-> dest.nodes,
                       outcome |-> IF lowered.crashed THEN "crashed" ELSE "lowered"]
           /\ pc' = IF lowered.crashed THEN "crashed" ELSE "idle"
  /\ UNCHANGED <<predicates, functions, client, call, ret, exists_obj>>

NextParser == Parse \/ GetTree

\* the destination trees a caller hands to the first lowering
DestTrees == {<<>>, Pa, TNot(Pa)}

InitParser ==
  /\ predicates = <<>>
  /\ functions = <<>>
  /\ client = NoClient
  /\ pc = "idle"
  /\ call = NoCall
  /\ ret = NoRet
  /\ exists_obj = NoExists
  /\ dest \in {[nodes |-> t, before |-> <<>>, outcome |-> "none"] : t \in DestTrees}

SpecParser == InitParser /\ [][NextParser]_vars


(***************************************************************************)
(* Properties                                                              *)
(***************************************************************************)
Finished(fn, backend) == pc = "returned" /\ call.fn = fn /\ call.backend = backend

Holds(preds, fact) == \E i \in 1..Len(preds) : checkNodeEquality(preds[i], fact)

Occurrences(preds, fact) ==
  Cardinality({i \in 1..Len(preds) : checkNodeEquality(preds[i], fact)})

\* the tree is NOT over a PREDICATE leaf
IsNotPredicate(tree) ==
  /\ Len(tree) = 2
  /\ tree[1].node_type = "NOT" /\ tree[1].children = <<1>>
  /\ tree[2].node_type = "PREDICATE"

\* C1: apply (local snapshot) of NOT over PREDICATE P(a) reports success,
\* leaves no P(a) in the predicate vector, keeps every other predicate in
\* place (the vector is unchanged when P(a) was not held) and keeps the
\* functions.
C1_ApplyNotPredicate ==
  (Finished("apply", "local") /\ IsNotPredicate(call.tree)) =>
    /\ ret.value = TRUE
    /\ ~Holds(predicates, call.tree[2])
    /\ predicates = SelectSeq(call.predicates,
                              LAMBDA x : ~checkNodeEquality(x, call.tree[2]))
    /\ (~Holds(call.predicates, call.tree[2]) => predicates = call.predicates)
    /\ functions = call.functions

\* a held fact was removed from a vector that keeps another fact
C1_Witness ==
  /\ Finished("apply", "local") /\ IsNotPredicate(call.tree)
  /\ Holds(call.predicates, call.tree[2])
  /\ Len(call.predicates) = 2 /\ Len(predicates) = 1

\* C2: the local predicate vector never holds two structurally equal
\* facts, whatever trees were applied; after apply of (P a) the vector holds
\* P(a) exactly once.
C2_NoDuplicateFacts ==
  /\ \A i, j \in 1..Len(predicates) :
       checkNodeEquality(predicates[i], predicates[j]) => i = j
  /\ (Finished("apply", "local") /\ call.tree = Pa) =>
       Occurrences(predicates, Pa[1]) = 1

\* (P a) was applied to a vector that already held P(a)
C2_Witness ==
  /\ Finished("apply", "local") /\ call.tree = Pa
  /\ Holds(call.predicates, Pa[1])
  /\ Len(predicates) = 2

\* the tree is EXISTS over one PREDICATE whose parameters are all quantified
IsExistsPredicate(tree) ==
  /\ Len(tree) = 2
  /\ tree[1].node_type = "EXISTS" /\ tree[1].children = <<1>>
  /\ tree[2].node_type = "PREDICATE"
  /\ \A i \in 1..Len(tree[2].parameters) :
       \E j \in 1..Len(tree[1].parameters) :
         tree[1].parameters[j] = tree[2].parameters[i]

\* the candidate objects of the call: the known instances of the backend,
\* or the parameters of the held predicates
CandidateSet ==
  IF call.backend = "remote"
  THEN {call.client.instances[i] : i \in 1..Len(call.client.instances)}
  ELSE UNION {{call.predicates[i].parameters[j] :
                 j \in 1..Len(call.predicates[i].parameters)} :
              i \in 1..Len(call.predicates)}

HeldBefore == IF call.backend = "remote" THEN call.client.predicates ELSE call.predicates

\* C3: check of EXISTS over a single PREDICATE succeeds, and is true exactly
\* when some assignment of candidate objects to the quantified variables
\* makes the predicate a held fact.
C3_ExistsPredicateCheck ==
  (pc = "returned" /\ call.fn = "check" /\ IsExistsPredicate(call.tree)) =>
    LET variables == {call.tree[1].parameters[i] : i \in 1..Len(call.tree[1].parameters)}
        body == call.tree[2]
        Grounded(sigma) ==
          [body EXCEPT !.parameters = [i \in 1..Len(@) |-> sigma[@[i]]]]
    IN  /\ ret.success
        /\ ret.value = ret.truth
        /\ ret.truth <=> \E sigma \in [variables -> CandidateSet] :
                           Holds(HeldBefore, Grounded(sigma))

\* a two-variable existential was found true
C3_Witness ==
  /\ pc = "returned" /\ call.fn = "check" /\ IsExistsPredicate(call.tree)
  /\ Len(call.tree[1].parameters) = 2
  /\ ret.truth


\* no children[0] was read from an empty children vector during the call
NoUndefinedRead == \A i \in 1..Len(ret.log) : ret.log[i].op # "oob_children_read"

\* C4: whenever some evaluate invocation of a call returned success = false,
\* the call's root result has success = false.
C4_FailurePropagates ==
  (pc = "returned" /\ NoUndefinedRead /\ ret.anyfail) => ~ret.success

\* the root of the call's tree is a PARAMETER node
IsParameter(tree) == Len(tree) = 1 /\ tree[1].node_type = "PARAMETER"

\* C5: evaluating a PARAMETER node returns (truth = the first parameter
\* name does not start with '?'), and does nothing but the one evaluate
\* invocation: no grounding, no read of a child.
C5_ParameterIsTerminal ==
  (pc \in {"returned", "crashed"} /\ IsParameter(call.tree)) =>
    /\ pc = "returned"
    /\ ret.truth = (Len(call.tree[1].parameters) > 0
                      /\ Front(call.tree[1].parameters[1]) # "?")
    /\ ret.log = <<[op |-> "evaluate", node |-> 0, args |-> <<>>]>>

MutatingOps == {"addPredicate", "removePredicate", "updateFunction"}

\* C7: a call of check leaves the predicate vector, the function vector with
\* its values, and the backend as they were, and issues no add, remove or
\* update to the backend.
C7_CheckIsPure ==
  (pc \in {"returned", "crashed"} /\ call.fn = "check") =>
    /\ predicates = call.predicates
    /\ functions = call.functions
    /\ client = call.client
    /\ \A i \in 1..Len(ret.log) : ret.log[i].op \notin MutatingOps

\* check computed a function modifier that apply would have committed
C7_Witness ==
  /\ pc = "returned" /\ call.fn = "check"
  /\ Len(call.tree) = 3 /\ call.tree[1].node_type = "FUNCTION_MODIFIER"
  /\ ret.success /\ ret.number = Two
  /\ \/ call.backend = "local" /\ functions = <<FunctionFact("f", <<"a">>, One)>>
     \/ call.backend = "remote" /\ client.functions = <<FunctionFact("f", <<"a">>, One)>>

\* the world a call started from
CallWorld ==
  IF call.backend = "local"
  THEN World(call.predicates, call.functions, call.client)
  ELSE World(<<>>, <<>>, call.client)

\* the results of the children kids[i..] evaluated one after the other,
\* each on the world the one before it left
RECURSIVE ChildResults(_, _, _)
ChildResults(w, kids, i) ==
  IF i > Len(kids) THEN <<>>
  ELSE LET r == evaluate(call.tree, w, call.fn = "apply", call.backend = "local",
                         kids[i], FALSE,
                         [ub |-> <<"crash", FALSE, FALSE>>, ok |-> call.ok])
       IN  <<r>> \o ChildResults(r.w, kids, i + 1)

\* C9: an AND or OR node evaluates every child in child order, each on the
\* state its predecessor left; success is the conjunction of the children's
\* success, truth their conjunction (AND) or disjunction (OR), and the
\* state after the call is the state the last child left, whatever failed.
C9_AndOrEvaluateEveryChild ==
  (pc = "returned" /\ NoUndefinedRead /\ Len(call.tree) > 0
     /\ call.tree[1].node_type \in {"AND", "OR"}) =>
    LET kids == call.tree[1].children
        rs == ChildResults(CallWorld, kids, 1)
        last == IF Len(kids) = 0 THEN CallWorld ELSE rs[Len(rs)].w
    IN  /\ ret.success = (\A i \in 1..Len(rs) : rs[i].success)
        /\ ret.truth = IF call.tree[1].node_type = "AND"
                       THEN \A i \in 1..Len(rs) : rs[i].truth
                       ELSE \E i \in 1..Len(rs) : rs[i].truth
        /\ ret.log = <<[op |-> "evaluate", node |-> 0, args |-> <<>>]>> \o last.log
        /\ client = last.client
        /\ call.backend = "local" =>
             predicates = last.predicates /\ functions = last.functions

\* apply of an AND failed on one child and committed the effect of a
\* sibling (the predicate after the failed child, or the assignment before it)
C9_Witness ==
  /\ Finished("apply", "local")
  /\ call.tree \in {TAnd(<<Ga, Pa>>), TAnd(<<TMod("ASSIGN", Fa, TNum(Two)), Ga>>)}
  /\ ~ret.success
  /\ \/ Holds(predicates, Pa[1]) /\ ~Holds(call.predicates, Pa[1])
     \/ functions # call.functions


RECURSIVE Power(_, _)
Power(k, n) == IF n = 0 THEN 1 ELSE k * Power(k, n - 1)

\* the candidate list of the call, in the order the grounding visits it
CandidateList ==
  IF call.backend = "remote" THEN call.client.instances
  ELSE LocalInstances(call.predicates, 1, <<>>)

\* the m-th tuple (m from 0) of the nested-loop order over n variables: the
\* last variable varies fastest
TupleAt(m, n, cands) ==
  [i \in 1..n |-> cands[((m \div Power(Len(cands), n - i)) % Len(cands)) + 1]]

BodyOps == {"body_ok_true", "body_ok_false", "body_failed_true", "body_failed_false"}

\* C10: the grounding of a root EXISTS with n variables over k candidates
\* evaluates the body on the tuples of the nested-loop order, one after the
\* other from the first; every body result but the last has truth = false;
\* a true body result ends the enumeration and is what the call returns;
\* otherwise all k^n tuples are evaluated and the result is (true, false);
\* with no variable the body is evaluated exactly once.
C10_GroundingOrder ==
  (pc = "returned" /\ NoUndefinedRead /\ Len(call.tree) > 0
     /\ call.tree[1].node_type = "EXISTS") =>
    LET n == Len(call.tree[1].parameters)
        k == Len(CandidateList)
        grounds == SelectSeq(ret.log, LAMBDA e : e.node = 0 /\ e.op = "ground")
        bodies == SelectSeq(ret.log, LAMBDA e : e.node = 0 /\ e.op \in BodyOps)
        found == Len(bodies) > 0
                   /\ bodies[Len(bodies)].op \in {"body_ok_true", "body_failed_true"}
    IN  /\ Len(grounds) <= Power(k, n)
        /\ Len(bodies) = Len(grounds)
        /\ \A m \in 1..Len(grounds) :
             /\ grounds[m].args = TupleAt(m - 1, n, CandidateList)
             /\ bodies[m].args = grounds[m].args
        /\ \A m \in 1..(Len(bodies) - 1) :
             bodies[m].op \in {"body_ok_false", "body_failed_false"}
        /\ IF found
           THEN ret.truth /\ (ret.success <=> bodies[Len(bodies)].op = "body_ok_true")
           ELSE Len(grounds) = Power(k, n) /\ ~ret.truth /\ ret.success
        /\ n = 0 => Len(grounds) = 1

\* a two-variable existential over two candidates stopped at its third
\* tuple, leaving the fourth unevaluated
C10_Witness ==
  /\ pc = "returned" /\ Len(call.tree) > 0 /\ call.tree[1].node_type = "EXISTS"
  /\ Len(call.tree[1].parameters) = 2 /\ Len(CandidateList) = 2
  /\ Len(SelectSeq(ret.log, LAMBDA e : e.node = 0 /\ e.op = "ground")) = 3
  /\ ret.truth

\* the tree is scale-down or ARITH_DIV of function f(a) by a number
IsDivision(tree) ==
  /\ Len(tree) = 3
  /\ \/ tree[1].node_type = "FUNCTION_MODIFIER" /\ tree[1].modifier_type = "SCALE_DOWN"
     \/ tree[1].node_type = "EXPRESSION" /\ tree[1].expression_type = "ARITH_DIV"
  /\ tree[2].node_type = "FUNCTION"
  /\ tree[3].node_type = "NUMBER"

FunctionsBefore == IF call.backend = "local" THEN call.functions ELSE call.client.functions
FunctionsAfter == IF call.backend = "local" THEN functions ELSE client.functions

\* C6: scale-down and ARITH_DIV of a defined function by r fail when
\* |r| <= 1e-5 and leave the stored values as they were; when |r| > 1e-5
\* they succeed with value left / right, and scale-down under apply stores
\* that value as the function's value.
C6_DivisionGuard ==
  (pc = "returned" /\ IsDivision(call.tree) /\ call.ok
     /\ FindIf(FunctionsBefore, call.tree[2]) # 0) =>
    LET it == FindIf(FunctionsBefore, call.tree[2])
        left == FunctionsBefore[it].value
        right == call.tree[3].value
    IN  IF RLe(RAbs(right), Epsilon)
        THEN /\ ~ret.success
             /\ FunctionsAfter = FunctionsBefore
        ELSE /\ ret.success
             /\ ret.number = RDiv(left, right)
             /\ (call.tree[1].node_type = "FUNCTION_MODIFIER" /\ call.fn = "apply") =>
                  FunctionsAfter[it].value = RDiv(left, right)

\* the same, for the local snapshot alone
C6_DivisionGuardLocal == call.backend = "local" => C6_DivisionGuard

\* C8: a lowering of a parsed Exists into a tree of length n completes,
\* leaves nodes 0..n-1 as they were and appends an EXISTS node with
\* node_id = n at index n, whose only child id is that of an existing node
\* after it.
C8_LoweringAppendsExists ==
  dest.outcome # "none" =>
    LET n == Len(dest.before)
    IN  /\ dest.outcome = "lowered"
        /\ Len(dest.nodes) > n
        /\ SubSeq(dest.nodes, 1, n) = dest.before
        /\ dest.nodes[n + 1].node_type = "EXISTS"
        /\ dest.nodes[n + 1].node_id = n
        /\ Len(dest.nodes[n + 1].children) = 1
        /\ dest.nodes[n + 1].children[1] > n
        /\ dest.nodes[n + 1].children[1] < Len(dest.nodes)

RECURSIVE HasBody(_)
\* no Exists of the condition was parsed from an empty body
HasBody(c) == c.kind # "null" /\ (c.kind = "Exists" => HasBody(c.cond))

\* the same, for the lowering of an Exists whose bodies were not empty
C8_LoweringWithBody ==
  [][(GetTree /\ HasBody(exists_obj.cond)) => C8_LoweringAppendsExists']_vars

\* the tree is NOT over a subtree, all of PREDICATE, AND, OR, NOT and EXISTS
IsNegatedLogical(tree) ==
  /\ Len(tree) > 1
  /\ tree[1].node_type = "NOT" /\ tree[1].children = <<1>>
  /\ \A i \in 1..Len(tree) :
       tree[i].node_type \in {"PREDICATE", "AND", "OR", "NOT", "EXISTS"}

\* the result of check on the subtree X of NOT(X), from the state the call
\* started from
Unnegated ==
  evaluate(call.tree, CallWorld, FALSE, call.backend = "local", 1, FALSE,
           [ub |-> <<"crash", FALSE, FALSE>>, ok |-> call.ok])

\* C11: in check mode, for X built from PREDICATE, AND, OR, NOT and EXISTS,
\* whenever the evaluations of NOT(X) and of X succeed, the truth returned
\* for NOT(X) is the negation of the truth returned for X.
C11_NegationIsLogical ==
  (pc = "returned" /\ call.fn = "check" /\ IsNegatedLogical(call.tree)
     /\ NoUndefinedRead /\ ret.success
     /\ Unnegated.success /\ ~Unnegated.w.crashed) =>
    ret.truth = ~Unnegated.truth

\* the same, for X a PREDICATE or a NOT over a PREDICATE: the cases where the
\* flag reaches a leaf without crossing an AND, an OR or an EXISTS
C11_NegatedLeaf ==
  (Len(call.tree) <= 3
     /\ \A i \in 2..Len(call.tree) : call.tree[i].node_type \in {"NOT", "PREDICATE"})
    => C11_NegationIsLogical

RECURSIVE Below(_, _)
\* the ids of the subtree of the node stored at index id
Below(tree, id) ==
  {id} \cup UNION {Below(tree, tree[id + 1].children[j]) :
                     j \in 1..Len(tree[id + 1].children)}

\* C12: a call of check or apply with a valid node index i evaluates the
\* node stored at index i first, and every node it evaluates afterwards is
\* stored at an id recorded in the subtree of node i.
C12_VisitsRecordedNodes ==
  (pc \in {"returned", "crashed"} /\ Len(call.tree) > 0) =>
    /\ Len(ret.log) > 0
    /\ ret.log[1].op = "evaluate" /\ ret.log[1].node = call.node_id
    /\ \A k \in 1..Len(ret.log) :
         ret.log[k].op = "evaluate" =>
           ret.log[k].node \in Below(call.tree, call.node_id)

\* the same, for the calls whose subtree lies below index 256
C12_VisitsBelow256 ==
  (pc \in {"returned", "crashed"} /\ Len(call.tree) > 0
     /\ \A n \in Below(call.tree, call.node_id) : n < 256)
    => C12_VisitsRecordedNodes

====
